---- MODULE Spec2Model ----
(***************************************************************************)
(* Verification model of svd2utra.py: the generator (generate, make_test,  *)
(* make_toml) and the runtime access library it emits (Register, Field,    *)
(* CSR<T>).                                                                *)
(*                                                                         *)
(* Machine words are modelled as the set of their one-bits (bit 0 is the   *)
(* least significant), so that 32-bit and 64-bit values are exact.         *)
(***************************************************************************)
EXTENDS Integers, Sequences, FiniteSets, TLC

(***************************************************************************)
(* Bounds of the model.                                                    *)
(***************************************************************************)
MaxOffset == 1
MaxIntervening == 1
MaxElements == 4

(***************************************************************************)
(* Word arithmetic on usize (the target is a 32-bit machine).              *)
(***************************************************************************)
UsizeBits == 32
UsizeBytes == 4

UsizeRange == 0 .. (UsizeBits - 1)

\* the bits of a non-negative literal below 2^31
Bits(n) == {i \in 0 .. 30 : (n \div (2 ^ i)) % 2 = 1}

And(a, b) == a \cap b
Or(a, b) == a \cup b
Not(a) == UsizeRange \ a
Shl(a, n) == {b + n : b \in a} \cap UsizeRange
Shr(a, n) == {b - n : b \in {c \in a : c >= n}}

(***************************************************************************)
(* The word types T a CSR<T> is instantiated with.                         *)
(***************************************************************************)
WordTypes == {"u8", "u16", "u32", "u64"}

SizeOf(t) == CASE t = "u8" -> 1 [] t = "u16" -> 2 [] t = "u32" -> 4 [] t = "u64" -> 8

TRange(t) == 0 .. (8 * SizeOf(t) - 1)

\* T::default()
Default == {}

\* usize -> T : try_into().unwrap_or_default()
IntoT_trunc(t, w) == w \cap TRange(t)
IntoT(t, w) == IF w \subseteq TRange(t) THEN w ELSE Default

\* T -> usize : try_into().unwrap_or_default()
IntoUsize(v) == IF v \subseteq UsizeRange THEN v ELSE Default

(***************************************************************************)
(* Register and Field descriptors.                                         *)
(***************************************************************************)
RegisterNew(offset) == [offset |-> offset]

MaskTable ==
  << 0, 1, 3, 7, 15, 31, 63, 127, 255, 511, 1023, 2047, 4095, 8191, 16383,
     32767, 65535, 131071, 262143, 524287, 1048575, 2097151, 4194303,
     8388607, 16777215, 33554431, 67108863, 134217727, 268435455, 536870911,
     1073741823, 2147483647 >>

FieldNew(width, offset, register) ==
  [mask |-> IF width \in 0 .. 31 THEN Bits(MaskTable[width + 1]) ELSE {},
   offset |-> offset,
   register |-> register]

\* the width the generator passes to Field::new:  int(msb)+1 - int(lsb)
GenWidth(lsb, msb) == msb + 1 - lsb

(***************************************************************************)
(* The word computed by each CSR operation.                                *)
(***************************************************************************)
rfWord(field, word) == And(Shr(word, field.offset), field.mask)

rmwfWord(field, value, word) ==
  LET value_as_usize == Shl(IntoUsize(value), field.offset)
      previous == And(word, Not(field.mask))
  IN  Or(previous, value_as_usize)

wfoWord(field, value) == Shl(And(IntoUsize(value), field.mask), field.offset)

woWord(value) == IntoUsize(value)

zfWord(field, value) == And(IntoUsize(value), Not(Shl(field.mask, field.offset)))

msWord(field, value) == Shl(And(IntoUsize(value), field.mask), field.offset)

(***************************************************************************)
(* State.                                                                  *)
(*   T, base     the CSR<T> instance: its word type and base address       *)
(*   mem         the usize words at base, indexed by usize offset          *)
(*   pre         mem before the last operation                             *)
(*   call        the last operation and its arguments                      *)
(*   ret, raw    its return value, and the usize it was narrowed from      *)
(*   log         the volatile accesses the last operation performed        *)
(*   called      whether the operation under study has been called         *)
(*   rpc, locals, other                                                    *)
(*               position and locals of an rmwf running under              *)
(*               interruption, and the stores of the other context         *)
(*   gpc, cause  position of generate(), and why it aborted                *)
(*   outDir, srcDir, manifest, libfile                                     *)
(*               the output directory tree                                 *)
(*   svd         the parsed document                                       *)
(*   lib         the lines written to src/lib.rs                           *)
(***************************************************************************)
VARIABLES T, base, mem, pre, call, ret, raw, log, called,
          rpc, locals, other,
          gpc, cause, outDir, srcDir, manifest, libfile, svd, lib

csrVars == <<T, base, mem, pre, call, ret, raw, log, called>>
raceVars == <<rpc, locals, other>>
genVars == <<gpc, cause, outDir, srcDir, manifest, libfile, svd, lib>>
vars == <<csrVars, raceVars, genVars>>

(***************************************************************************)
(* Inputs of the runtime library.                                          *)
(***************************************************************************)
BaseAddrs == {4096}

\* 0x000000FF, 0x000001FF, 0xABCD1234, 0xFFFFFFFF
InitWords == {Bits(255), Bits(511), Bits(734859828) \cup {31}, UsizeRange}

\* 0, 1, 3, 0xFF, 0xABCD1234, 0xFFFFFFFF, 2^32
InputValues == {Bits(0), Bits(1), Bits(3), Bits(255), Bits(734859828) \cup {31},
                UsizeRange, {32}}

Values(t) == {v \in InputValues : v \subseteq TRange(t)}

Registers == {RegisterNew(k) : k \in 0 .. MaxOffset}

\* <<lsb, msb>> of the declared fields
FieldRanges == {<<0, 0>>, <<4, 7>>, <<8, 15>>, <<16, 31>>, <<31, 31>>, <<0, 31>>}

FieldOf(rng, reg) == FieldNew(GenWidth(rng[1], rng[2]), rng[1], reg)

Fields == {FieldOf(rng, reg) : rng \in FieldRanges, reg \in Registers}

NoField == FieldNew(0, 0, RegisterNew(0))

Load(k) == [kind |-> "load", addr |-> base + k * UsizeBytes, size |-> UsizeBytes]
Store(k) == [kind |-> "store", addr |-> base + k * UsizeBytes, size |-> UsizeBytes]

NoCall == [op |-> "none", k |-> 0, field |-> NoField, value |-> Default]

GenIdle ==
  /\ gpc = "off" /\ cause = "none" /\ outDir = FALSE /\ srcDir = FALSE
  /\ manifest = "absent" /\ libfile = "absent" /\ svd = <<>> /\ lib = <<>>

RaceIdle == rpc = "off" /\ locals = <<>> /\ other = <<>>

CsrInit ==
  /\ T \in WordTypes
  /\ base \in BaseAddrs
  /\ mem \in [0 .. MaxOffset -> InitWords]
  /\ pre = mem
  /\ call = NoCall
  /\ ret = Default
  /\ raw = Default
  /\ log = <<>>
  /\ called = FALSE

Init == CsrInit /\ RaceIdle /\ GenIdle

(***************************************************************************)
(* The operations of CSR<T>.  An operation depends on nothing but the      *)
(* register words and its arguments, so a behaviour applies one operation  *)
(* to a memory drawn by Init.                                              *)
(***************************************************************************)
r(reg) ==
  /\ ~called
  /\ LET word == mem[reg.offset]
     IN  /\ raw' = word
         /\ ret' = IntoT(T, word)
  /\ log' = <<Load(reg.offset)>>
  /\ call' = [op |-> "r", k |-> reg.offset, field |-> NoField, value |-> Default]
  /\ pre' = mem
  /\ called' = TRUE
  /\ UNCHANGED <<T, base, mem, raceVars, genVars>>

rf(field) ==
  /\ ~called
  /\ LET word == mem[field.register.offset]
     IN  /\ raw' = rfWord(field, word)
         /\ ret' = IntoT(T, rfWord(field, word))
  /\ log' = <<Load(field.register.offset)>>
  /\ call' = [op |-> "rf", k |-> field.register.offset, field |-> field,
              value |-> Default]
  /\ pre' = mem
  /\ called' = TRUE
  /\ UNCHANGED <<T, base, mem, raceVars, genVars>>

rmwf(field, value) ==
  /\ ~called
  /\ mem' = [mem EXCEPT ![field.register.offset] =
                rmwfWord(field, value, mem[field.register.offset])]
  /\ log' = <<Load(field.register.offset), Store(field.register.offset)>>
  /\ call' = [op |-> "rmwf", k |-> field.register.offset, field |-> field,
              value |-> value]
  /\ pre' = mem
  /\ called' = TRUE
  /\ UNCHANGED <<T, base, ret, raw, raceVars, genVars>>

wfo_loading(field, value) ==
  /\ ~called
  /\ mem' = [mem EXCEPT ![field.register.offset] = wfoWord(field, value)]
  /\ log' = <<Load(field.register.offset), Store(field.register.offset)>>
  /\ call' = [op |-> "wfo", k |-> field.register.offset, field |-> field,
              value |-> value]
  /\ pre' = mem
  /\ called' = TRUE
  /\ UNCHANGED <<T, base, ret, raw, raceVars, genVars>>

wfo(field, value) ==
  /\ ~called
  /\ mem' = [mem EXCEPT ![field.register.offset] = wfoWord(field, value)]
  /\ log' = <<Store(field.register.offset)>>
  /\ call' = [op |-> "wfo", k |-> field.register.offset, field |-> field,
              value |-> value]
  /\ pre' = mem
  /\ called' = TRUE
  /\ UNCHANGED <<T, base, ret, raw, raceVars, genVars>>

wo(reg, value) ==
  /\ ~called
  /\ mem' = [mem EXCEPT ![reg.offset] = woWord(value)]
  /\ log' = <<Store(reg.offset)>>
  /\ call' = [op |-> "wo", k |-> reg.offset, field |-> NoField, value |-> value]
  /\ pre' = mem
  /\ called' = TRUE
  /\ UNCHANGED <<T, base, ret, raw, raceVars, genVars>>

zf(field, value) ==
  /\ ~called
  /\ raw' = zfWord(field, value)
  /\ ret' = IntoT(T, zfWord(field, value))
  /\ log' = <<>>
  /\ call' = [op |-> "zf", k |-> field.register.offset, field |-> field,
              value |-> value]
  /\ pre' = mem
  /\ called' = TRUE
  /\ UNCHANGED <<T, base, mem, raceVars, genVars>>

ms(field, value) ==
  /\ ~called
  /\ raw' = msWord(field, value)
  /\ ret' = IntoT(T, msWord(field, value))
  /\ log' = <<>>
  /\ call' = [op |-> "ms", k |-> field.register.offset, field |-> field,
              value |-> value]
  /\ pre' = mem
  /\ called' = TRUE
  /\ UNCHANGED <<T, base, mem, raceVars, genVars>>

Next ==
  \/ \E reg \in Registers : r(reg)
  \/ \E field \in Fields : rf(field)
  \/ \E field \in Fields, value \in Values(T) : rmwf(field, value)
  \/ \E field \in Fields, value \in Values(T) : wfo(field, value)
  \/ \E reg \in Registers, value \in Values(T) : wo(reg, value)
  \/ \E field \in Fields, value \in Values(T) : zf(field, value)
  \/ \E field \in Fields, value \in Values(T) : ms(field, value)

Spec == Init /\ [][Next]_vars

(***************************************************************************)
(* rmwf running while another context (an interrupt handler, another       *)
(* thread) stores to registers of the same CSR: the volatile load and the  *)
(* volatile store of rmwf are separate memory operations.                  *)
(***************************************************************************)
\* the values the other context stores: 0 and 0xFFFFFFFF
OtherValues == {Bits(0), UsizeRange}

\* the CSR<u32> of the generated self-check
RaceInit ==
  /\ CsrInit
  /\ T = "u32"
  /\ rpc = "idle" /\ locals = <<>> /\ other = <<>>
  /\ GenIdle

rmwfLoad(field, value) ==
  /\ rpc = "idle"
  /\ locals' = [value_as_usize |-> Shl(IntoUsize(value), field.offset),
                previous |-> And(mem[field.register.offset], Not(field.mask))]
  /\ log' = <<Load(field.register.offset)>>
  /\ call' = [op |-> "rmwf", k |-> field.register.offset, field |-> field,
              value |-> value]
  /\ pre' = mem
  /\ rpc' = "loaded"
  /\ UNCHANGED <<T, base, mem, ret, raw, called, other, genVars>>

rmwfStore_reload ==
  /\ rpc = "loaded"
  /\ mem' = [mem EXCEPT ![call.k] = rmwfWord(call.field, call.value, mem[call.k])]
  /\ log' = Append(log, Store(call.k))
  /\ rpc' = "stored"
  /\ UNCHANGED <<T, base, pre, call, ret, raw, called, locals, other, genVars>>

rmwfStore ==
  /\ rpc = "loaded"
  /\ mem' = [mem EXCEPT ![call.k] = Or(locals.previous, locals.value_as_usize)]
  /\ log' = Append(log, Store(call.k))
  /\ rpc' = "stored"
  /\ UNCHANGED <<T, base, pre, call, ret, raw, called, locals, other, genVars>>

\* the other context runs wo(reg, value)
otherStore(reg, value) ==
  /\ rpc \in {"idle", "loaded", "stored"}
  /\ Len(other) < MaxIntervening
  /\ mem' = [mem EXCEPT ![reg.offset] = woWord(value)]
  /\ other' = Append(other, [k |-> reg.offset, word |-> woWord(value), at |-> rpc])
  /\ UNCHANGED <<T, base, pre, call, ret, raw, log, called, rpc, locals, genVars>>

RaceNext ==
  \/ \E field \in Fields, value \in Values(T) : rmwfLoad(field, value)
  \/ rmwfStore
  \/ \E reg \in Registers, value \in OtherValues : otherStore(reg, value)

RaceSpec == RaceInit /\ [][RaceNext]_vars

(***************************************************************************)
(* The generator.  Names are sequences of characters; element texts that   *)
(* are copied verbatim are strings; None is a missing element.             *)
(***************************************************************************)
None == "None"

LowerLetters == <<"a", "b", "c", "d", "e", "f", "g", "h", "i", "j", "k", "l", "m",
                  "n", "o", "p", "q", "r", "s", "t", "u", "v", "w", "x", "y", "z">>
UpperLetters == <<"A", "B", "C", "D", "E", "F", "G", "H", "I", "J", "K", "L", "M",
                  "N", "O", "P", "Q", "R", "S", "T", "U", "V", "W", "X", "Y", "Z">>

UpperOf == [c \in {LowerLetters[i] : i \in 1 .. Len(LowerLetters)} |->
              UpperLetters[CHOOSE i \in 1 .. Len(LowerLetters) : LowerLetters[i] = c]]
LowerOf == [c \in {UpperLetters[i] : i \in 1 .. Len(UpperLetters)} |->
              LowerLetters[CHOOSE i \in 1 .. Len(UpperLetters) : UpperLetters[i] = c]]

\* str.upper() and str.lower()
upper(str) ==
  [i \in 1 .. Len(str) |-> IF str[i] \in DOMAIN UpperOf THEN UpperOf[str[i]] ELSE str[i]]
lower(str) ==
  [i \in 1 .. Len(str) |-> IF str[i] \in DOMAIN LowerOf THEN LowerOf[str[i]] ELSE str[i]]

(***************************************************************************)
(* The elements a document is made of.  A document holds at most           *)
(* MaxElements memory regions, peripherals, registers and fields in all.   *)
(***************************************************************************)
RegionNames == {<<"s", "r", "a", "m">>}
RegionBases == {"0x10000000"}
RegionSizes == {"0x00020000", None}
PeripheralNames == {<<"u", "a", "r", "t">>, <<"U", "A", "R", "T">>, <<"s", "p", "i">>}
PeripheralBases == {"0xF0001000", None}
RegisterNames == {<<"E", "V">>, <<"E", "V", "_", "E", "N">>}
RegisterOffsets == {"0", "4"}
FieldNames == {<<"e", "n">>, <<"E", "N">>}
DocFieldRanges == {<<4, 7>>}

RegionElems == {[name |-> n, baseAddress |-> b, size |-> z] :
                  n \in RegionNames, b \in RegionBases, z \in RegionSizes}

PeripheralElems == {[name |-> n, baseAddress |-> b, registers |-> <<>>] :
                      n \in PeripheralNames, b \in PeripheralBases}

RegisterElems == {[name |-> n, addressOffset |-> o, fields |-> <<>>] :
                    n \in RegisterNames, o \in RegisterOffsets}

FieldElems == {[name |-> n, lsb |-> rng[1], msb |-> rng[2]] :
                 n \in FieldNames, rng \in DocFieldRanges}

RECURSIVE CountRegisterElements(_)
CountRegisterElements(regs) ==
  IF regs = <<>> THEN 0
  ELSE 1 + Len(Head(regs).fields) + CountRegisterElements(Tail(regs))

RECURSIVE CountPeripheralElements(_)
CountPeripheralElements(ps) ==
  IF ps = <<>> THEN 0
  ELSE 1 + CountRegisterElements(Head(ps).registers) + CountPeripheralElements(Tail(ps))

CountElements(doc) == Len(doc.memoryRegions) + CountPeripheralElements(doc.peripherals)

NoDoc == [memoryRegions |-> <<>>, peripherals |-> <<>>]

(***************************************************************************)
(* Lines of lib.rs.                                                        *)
(***************************************************************************)
Line(kind, mod, name, value, width, offset, register) ==
  [kind |-> kind, mod |-> mod, name |-> name, value |-> value,
   width |-> width, offset |-> offset, register |-> register]

HW == <<"H", "W", "_">>

\* 'HW_' + name.text + '_MEM'
MemConstName(name) == HW \o name \o <<"_", "M", "E", "M">>
MemLenConstName(name) == HW \o name \o <<"_", "M", "E", "M", "_", "L", "E", "N">>
BaseConstName_upper(name) == HW \o upper(name) \o <<"_", "B", "A", "S", "E">>
BaseConstName(name) == HW \o name \o <<"_", "B", "A", "S", "E">>

\* peri_name.text.lower()
ModName_flat(name) == <<"u", "t", "r", "a">>
ModName(name) == lower(name)

\* register_name + '_' + field.text.upper()
FieldConstName(register_name, field_name) == register_name \o <<"_">> \o upper(field_name)

\* what a loop body writes before it completes (ok) or raises (~ok)
Out(lines, ok) == [lines |-> lines, ok |-> ok]

RECURSIVE EmitAll(_)
EmitAll(outs) ==
  IF outs = <<>> THEN Out(<<>>, TRUE)
  ELSE IF ~Head(outs).ok THEN Out(Head(outs).lines, FALSE)
  ELSE LET rest == EmitAll(Tail(outs))
       IN  Out(Head(outs).lines \o rest.lines, rest.ok)

RegionOut(region) ==
  IF region.baseAddress = None THEN Out(<<>>, FALSE)
  ELSE LET mem_line == Line("const", <<>>, MemConstName(region.name),
                            region.baseAddress, 0, 0, <<>>)
           len_line == Line("const", <<>>, MemLenConstName(region.name),
                            region.size, 0, 0, <<>>)
       IN  IF region.size = None THEN Out(<<mem_line>>, FALSE)
           ELSE Out(<<mem_line, len_line>>, TRUE)

PeripheralBaseOut(peripheral) ==
  IF peripheral.baseAddress = None THEN Out(<<>>, FALSE)
  ELSE Out(<<Line("const", <<>>, BaseConstName(peripheral.name),
                  peripheral.baseAddress, 0, 0, <<>>)>>, TRUE)

FieldOut(mod, register_name, field) ==
  Out(<<Line("field", mod, FieldConstName(register_name, field.name), "",
             GenWidth(field.lsb, field.msb),
             field.lsb, register_name)>>, TRUE)

RegisterOut(mod, register) ==
  IF register.addressOffset = None THEN Out(<<>>, FALSE)
  ELSE LET fields == EmitAll([i \in 1 .. Len(register.fields) |->
                                FieldOut(mod, register.name, register.fields[i])])
       IN  Out(<<Line("register", mod, register.name, register.addressOffset,
                      0, 0, <<>>)>> \o fields.lines, fields.ok)

PeripheralModOut(peripheral) ==
  LET mod == ModName(peripheral.name)
      registers == EmitAll([i \in 1 .. Len(peripheral.registers) |->
                              RegisterOut(mod, peripheral.registers[i])])
  IN  Out(<<Line("mod", <<>>, mod, "", 0, 0, <<>>)>> \o registers.lines, registers.ok)

\* make_test: the accessor calls emitted for every register and field
TestRegisterOut(mod, register) ==
  Out(<<Line("test_reg", mod, register.name, "", 0, 0, <<>>)>> \o
      [i \in 1 .. Len(register.fields) |->
         Line("test_field", mod, FieldConstName(register.name, register.fields[i].name),
              "", 0, 0, <<>>)],
      TRUE)

TestPeripheralOut(peripheral) ==
  LET mod_name == lower(peripheral.name)
      registers == EmitAll([i \in 1 .. Len(peripheral.registers) |->
                              TestRegisterOut(mod_name, peripheral.registers[i])])
  IN  Out(<<Line("test_csr", mod_name, lower(peripheral.name) \o <<"_", "c", "s", "r">>,
                 "", 0, 0, BaseConstName(peripheral.name))>> \o registers.lines,
          registers.ok)

(***************************************************************************)
(* generate(fname, oname), statement by statement.                         *)
(***************************************************************************)
CsrIdle ==
  /\ T = "u32" /\ base \in BaseAddrs /\ mem = [k \in 0 .. MaxOffset |-> {}]
  /\ pre = mem /\ call = NoCall /\ ret = Default /\ raw = Default
  /\ log = <<>> /\ called = FALSE

GenInit ==
  /\ CsrIdle
  /\ RaceIdle
  /\ gpc = "mkdir_out"
  /\ cause = "none"
  /\ outDir \in BOOLEAN
  /\ srcDir \in {d \in BOOLEAN : d => outDir}
  /\ manifest \in {m \in {"absent", "old"} : m = "old" => outDir}
  /\ libfile \in {f \in {"absent", "old"} : f = "old" => srcDir}
  /\ svd = NoDoc
  /\ lib = <<>>

Raise(c) == gpc' = "aborted" /\ cause' = c

\* Path.mkdir('./oname', exist_ok=True)
MkdirOut ==
  /\ gpc = "mkdir_out"
  /\ \/ /\ outDir' = TRUE
        /\ gpc' = "mkdir_src"
        /\ UNCHANGED cause
     \/ /\ ~outDir
        /\ Raise("FilesystemError")
        /\ UNCHANGED outDir
  /\ UNCHANGED <<srcDir, manifest, libfile, svd, lib, csrVars, raceVars>>

\* Path.mkdir('./oname/src', exist_ok=True)
MkdirSrc ==
  /\ gpc = "mkdir_src"
  /\ \/ /\ srcDir' = TRUE
        /\ gpc' = "open_toml"
        /\ UNCHANGED cause
     \/ /\ ~srcDir
        /\ Raise("FilesystemError")
        /\ UNCHANGED srcDir
  /\ UNCHANGED <<outDir, manifest, libfile, svd, lib, csrVars, raceVars>>

\* toml = open('./oname/Cargo.toml', mode='w')
OpenToml ==
  /\ gpc = "open_toml"
  /\ \/ /\ manifest' = "empty"
        /\ gpc' = "make_toml"
        /\ UNCHANGED cause
     \/ /\ Raise("FilesystemError")
        /\ UNCHANGED manifest
  /\ UNCHANGED <<outDir, srcDir, libfile, svd, lib, csrVars, raceVars>>

\* make_toml(toml, fname)
MakeToml ==
  /\ gpc = "make_toml"
  /\ manifest' = "written"
  /\ gpc' = "open_lib"
  /\ UNCHANGED <<cause, outDir, srcDir, libfile, svd, lib, csrVars, raceVars>>

\* lib = open('./oname/src/lib.rs', mode='w')
OpenLib ==
  /\ gpc = "open_lib"
  /\ \/ /\ libfile' = "created"
        /\ lib' = <<>>
        /\ gpc' = "parse"
        /\ UNCHANGED cause
     \/ /\ Raise("FilesystemError")
        /\ UNCHANGED <<libfile, lib>>
  /\ UNCHANGED <<outDir, srcDir, manifest, svd, csrVars, raceVars>>

\* svd = ET.parse(fname): the parser reads the document element by element
ParseRegion(region) ==
  /\ gpc = "parse"
  /\ CountElements(svd) < MaxElements
  /\ svd.peripherals = <<>>
  /\ svd' = [svd EXCEPT !.memoryRegions = Append(@, region)]
  /\ UNCHANGED <<gpc, cause, outDir, srcDir, manifest, libfile, lib, csrVars, raceVars>>

ParsePeripheral(peripheral) ==
  /\ gpc = "parse"
  /\ CountElements(svd) < MaxElements
  /\ svd' = [svd EXCEPT !.peripherals = Append(@, peripheral)]
  /\ UNCHANGED <<gpc, cause, outDir, srcDir, manifest, libfile, lib, csrVars, raceVars>>

ParseRegister(register) ==
  /\ gpc = "parse"
  /\ CountElements(svd) < MaxElements
  /\ svd.peripherals # <<>>
  /\ LET p == Len(svd.peripherals)
     IN  svd' = [svd EXCEPT !.peripherals[p].registers = Append(@, register)]
  /\ UNCHANGED <<gpc, cause, outDir, srcDir, manifest, libfile, lib, csrVars, raceVars>>

ParseField(field) ==
  /\ gpc = "parse"
  /\ CountElements(svd) < MaxElements
  /\ svd.peripherals # <<>>
  /\ LET p == Len(svd.peripherals)
         q == Len(svd.peripherals[p].registers)
     IN  /\ q > 0
         /\ svd' = [svd EXCEPT !.peripherals[p].registers[q].fields = Append(@, field)]
  /\ UNCHANGED <<gpc, cause, outDir, srcDir, manifest, libfile, lib, csrVars, raceVars>>

\* the document is not well-formed: ET.parse raises
ParseError_first ==
  /\ gpc = "mkdir_out"
  /\ Raise("SyntaxError")
  /\ UNCHANGED <<outDir, srcDir, manifest, libfile, svd, lib, csrVars, raceVars>>

ParseError ==
  /\ gpc = "parse"
  /\ Raise("SyntaxError")
  /\ UNCHANGED <<outDir, srcDir, manifest, libfile, svd, lib, csrVars, raceVars>>

\* svd_root = svd.getroot(); the two findall()
ParseDone ==
  /\ gpc = "parse"
  /\ gpc' = "banner"
  /\ UNCHANGED <<cause, outDir, srcDir, manifest, libfile, svd, lib, csrVars, raceVars>>

\* the banner line and add_header(lib)
WriteHeader ==
  /\ gpc = "banner"
  /\ lib' = lib \o <<Line("banner", <<>>, <<>>, "", 0, 0, <<>>),
                     Line("header", <<>>, <<>>, "", 0, 0, <<>>)>>
  /\ gpc' = "regions"
  /\ UNCHANGED <<cause, outDir, srcDir, manifest, libfile, svd, csrVars, raceVars>>

\* a loop of generate: its lines, then the next statement or AttributeError
WriteLoop(at, outs, next) ==
  /\ gpc = at
  /\ LET out == EmitAll(outs)
     IN  /\ lib' = lib \o out.lines
         /\ IF out.ok THEN gpc' = next /\ UNCHANGED cause
            ELSE Raise("StructureError")
  /\ UNCHANGED <<outDir, srcDir, manifest, libfile, svd, csrVars, raceVars>>

\* for region in memoryRegions
WriteRegions ==
  WriteLoop("regions",
            [i \in 1 .. Len(svd.memoryRegions) |-> RegionOut(svd.memoryRegions[i])],
            "bases")

\* for peripheral in peripherals: the _BASE constants
WriteBases ==
  WriteLoop("bases",
            [i \in 1 .. Len(svd.peripherals) |-> PeripheralBaseOut(svd.peripherals[i])],
            "namespace")

\* pub mod utra { for peripheral in peripherals ... }
WriteNamespace ==
  WriteLoop("namespace",
            [i \in 1 .. Len(svd.peripherals) |-> PeripheralModOut(svd.peripherals[i])],
            "make_test")

\* make_test(svd_root, lib)
MakeTest ==
  WriteLoop("make_test",
            [i \in 1 .. Len(svd.peripherals) |-> TestPeripheralOut(svd.peripherals[i])],
            "done")

GenNext ==
  \/ MkdirOut
  \/ MkdirSrc
  \/ OpenToml
  \/ MakeToml
  \/ OpenLib
  \/ \E region \in RegionElems : ParseRegion(region)
  \/ \E peripheral \in PeripheralElems : ParsePeripheral(peripheral)
  \/ \E register \in RegisterElems : ParseRegister(register)
  \/ \E field \in FieldElems : ParseField(field)
  \/ ParseError
  \/ ParseDone
  \/ WriteHeader
  \/ WriteRegions
  \/ WriteBases
  \/ WriteNamespace
  \/ MakeTest

GenSpec == GenInit /\ [][GenNext]_vars

(***************************************************************************)
(* Properties of the runtime library.                                      *)
(***************************************************************************)
Kinds(l) == [i \in 1 .. Len(l) |-> l[i].kind]

\* the bit positions a field occupies in its register
FieldBits(field) == Shl(field.mask, field.offset)

\* C1: after rmwf(field, X) on a register holding V0, the bits outside the
\* field equal those of V0 and the bits inside the field equal X & mask
\* (V0 = 0xFF, mask = 0x0F, bitOffset = 4, X = 3 gives 0x3F).
C1_RmwfPreservesOutside ==
  call.op = "rmwf" =>
    mem[call.k] = Or(pre[call.k] \ FieldBits(call.field),
                     Shl(And(IntoUsize(call.value), call.field.mask),
                         call.field.offset))

\* C2: zf(field, V) | ms(field, X) equals the word rmwf(field, X) stores when
\* the register initially holds V.
C2_ZfMsEqualsRmwf ==
  (call.op = "rmwf" /\ UsizeRange \subseteq TRange(T)) =>
    mem[call.k] = Or(IntoUsize(IntoT(T, zfWord(call.field, pre[call.k]))),
                     IntoUsize(IntoT(T, msWord(call.field, call.value))))

\* C3: for every field with 0 <= lsb <= msb <= 31, rf on the descriptor
\* Field::new(msb + 1 - lsb, lsb, register) returns bits [lsb, msb] of the
\* register word, a field of width 32 included.
C3_RfExtractsField ==
  \A rng \in FieldRanges :
    (/\ call.op = "rf"
     /\ call.field = FieldOf(rng, RegisterNew(call.k))
     /\ UsizeRange \subseteq TRange(T)) =>
      ret = {b - rng[1] : b \in pre[call.k] \cap (rng[1] .. rng[2])}

\* C4: the store of rmwf writes the word derived from the value rmwf loaded,
\* whatever another context stored to the register since that load.
C4_StaleStore ==
  [][(rpc = "loaded" /\ rpc' = "stored") =>
       mem'[call.k] = rmwfWord(call.field, call.value, pre[call.k])]_vars

C4_Witness ==
  /\ rpc = "stored"
  /\ \E i \in 1 .. Len(other) :
       /\ other[i].at = "loaded"
       /\ other[i].k = call.k
       /\ other[i].word # pre[call.k]
       /\ mem[call.k] = rmwfWord(call.field, call.value, pre[call.k])
       /\ mem[call.k] # rmwfWord(call.field, call.value, other[i].word)

\* C5: wo and wfo perform one store and no load; r and rf one load and no
\* store; rmwf one load then one store to the same register; zf and ms no
\* access; no operation changes a register other than the one it addresses.
C5_Footprint ==
  /\ call.op \in {"wo", "wfo"} => Kinds(log) = <<"store">>
  /\ call.op \in {"r", "rf"} => (Kinds(log) = <<"load">> /\ mem = pre)
  /\ call.op = "rmwf" => (Kinds(log) = <<"load", "store">> /\ log[1].addr = log[2].addr)
  /\ call.op \in {"zf", "ms"} => (log = <<>> /\ mem = pre)
  /\ \A i \in 1 .. Len(log) : log[i].addr = base + call.k * UsizeBytes
  /\ \A j \in 0 .. MaxOffset : j # call.k => mem[j] = pre[j]

C5_Witness ==
  /\ call.op = "rmwf"
  /\ Kinds(log) = <<"load", "store">>
  /\ mem[call.k] # pre[call.k]
  /\ \E j \in 0 .. MaxOffset : j # call.k /\ mem[j] = pre[j]

\* C6: a result that does not fit T is returned as zero (never truncated),
\* and an input that does not convert to usize is treated as zero.
C6_ConversionFallback ==
  /\ ret \subseteq TRange(T)
  /\ (call.op = "r" /\ ~(pre[call.k] \subseteq TRange(T))) => ret = {}
  /\ (call.op = "r" /\ pre[call.k] \subseteq TRange(T)) => ret = pre[call.k]
  /\ (call.op \in {"rf", "zf", "ms"} /\ ~(raw \subseteq TRange(T))) => ret = {}
  /\ (call.op \in {"rf", "zf", "ms"} /\ raw \subseteq TRange(T)) => ret = raw
  /\ ~(call.value \subseteq UsizeRange) =>
       /\ call.op \in {"wo", "wfo"} => mem[call.k] = {}
       /\ call.op \in {"zf", "ms"} => ret = {}
       /\ call.op = "rmwf" => mem[call.k] = rmwfWord(call.field, {}, pre[call.k])

C6_Witness ==
  /\ call.op = "r"
  /\ T = "u8"
  /\ ~(pre[call.k] \subseteq TRange(T))
  /\ ret = {}

\* C9: every operation on a register with word offset k accesses the address
\* B + k * sizeof(T) and transfers one T-sized word, for every T.
C9_AddressInUnitsOfT ==
  \A i \in 1 .. Len(log) :
    /\ log[i].addr = base + call.k * SizeOf(T)
    /\ log[i].size = SizeOf(T)

(***************************************************************************)
(* Properties of the generator.                                            *)
(***************************************************************************)
Distinct(seq, F(_)) ==
  \A i, j \in 1 .. Len(seq) : i # j => F(seq[i]) # F(seq[j])

NameOf(e) == e.name
LowerNameOf(e) == lower(e.name)
UpperNameOf(e) == upper(e.name)

\* the input contract: names unique at every level
InputContract(doc) ==
  /\ Distinct(doc.peripherals, NameOf)
  /\ \A p \in 1 .. Len(doc.peripherals) :
       LET regs == doc.peripherals[p].registers
       IN  /\ Distinct(regs, NameOf)
           /\ \A q \in 1 .. Len(regs) : Distinct(regs[q].fields, NameOf)

\* names unique after the case folding the generator applies, and register
\* names without an underscore
FoldedContract(doc) ==
  /\ Distinct(doc.peripherals, LowerNameOf)
  /\ \A p \in 1 .. Len(doc.peripherals) :
       LET regs == doc.peripherals[p].registers
       IN  /\ Distinct(regs, NameOf)
           /\ \A q \in 1 .. Len(regs) :
                /\ \A c \in 1 .. Len(regs[q].name) : regs[q].name[c] # "_"
                /\ Distinct(regs[q].fields, UpperNameOf)

Descriptors == SelectSeq(lib, LAMBDA l : l.kind \in {"register", "field"})

QualifiedName(l) == <<l.mod, l.name>>

Same(name) == name

\* the constants a complete run is to emit, their names built with Case
ExpectedConstants(doc, Case(_)) ==
  [i \in 1 .. 2 * Len(doc.memoryRegions) |->
     LET region == doc.memoryRegions[(i + 1) \div 2]
     IN  IF i % 2 = 1
         THEN <<<<"H", "W", "_">> \o Case(region.name) \o <<"_", "M", "E", "M">>,
                region.baseAddress>>
         ELSE <<<<"H", "W", "_">> \o Case(region.name)
                  \o <<"_", "M", "E", "M", "_", "L", "E", "N">>,
                region.size>>]
  \o
  [i \in 1 .. Len(doc.peripherals) |->
     <<<<"H", "W", "_">> \o Case(doc.peripherals[i].name) \o <<"_", "B", "A", "S", "E">>,
       doc.peripherals[i].baseAddress>>]

RECURSIVE ExpectedOffsets(_)
ExpectedOffsets(ps) ==
  IF ps = <<>> THEN <<>>
  ELSE [q \in 1 .. Len(Head(ps).registers) |-> Head(ps).registers[q].addressOffset]
       \o ExpectedOffsets(Tail(ps))

EmittedConstants ==
  LET consts == SelectSeq(lib, LAMBDA l : l.kind = "const")
  IN  [i \in 1 .. Len(consts) |-> <<consts[i].name, consts[i].value>>]

EmittedOffsets ==
  LET regs == SelectSeq(lib, LAMBDA l : l.kind = "register")
  IN  [i \in 1 .. Len(regs) |-> regs[i].value]

\* C8 (as claimed): a complete run emits, in document order, HW_<NAME>_MEM and
\* HW_<NAME>_MEM_LEN for each region and HW_<NAME>_BASE for each peripheral,
\* <NAME> being the upper-cased name, with the values verbatim, and each
\* Register descriptor holds addressOffset verbatim.
C8_ConstantsUpperCased ==
  gpc = "done" =>
    /\ EmittedConstants = ExpectedConstants(svd, upper)
    /\ EmittedOffsets = ExpectedOffsets(svd.peripherals)

\* C8 (amended): as claimed, except that the constants are named from the
\* region or peripheral name as written in the document, without any change
\* of case.
C8_ConstantsVerbatim ==
  gpc = "done" =>
    /\ EmittedConstants = ExpectedConstants(svd, Same)
    /\ EmittedOffsets = ExpectedOffsets(svd.peripherals)

C8_Witness ==
  /\ gpc = "done"
  /\ Len(svd.memoryRegions) > 0
  /\ \E p \in 1 .. Len(svd.peripherals) :
       /\ svd.peripherals[p].name # upper(svd.peripherals[p].name)
       /\ Len(svd.peripherals[p].registers) > 0
  /\ Len(EmittedConstants) = 2 * Len(svd.memoryRegions) + Len(svd.peripherals)

\* C10: a run that aborts because the document cannot be parsed or lacks a
\* required element leaves the output directories, the whole manifest and a
\* created (truncated) library file behind.
C10_ManifestLeftBehind ==
  (gpc = "aborted" /\ cause \in {"SyntaxError", "StructureError"}) =>
    /\ outDir
    /\ srcDir
    /\ manifest = "written"
    /\ libfile = "created"

C10_Witness ==
  /\ gpc = "aborted"
  /\ cause = "StructureError"
  /\ manifest = "written"
  /\ libfile = "created"
  /\ lib # <<>>

====
